---- MODULE Spec2Model ----
(***************************************************************************)
(* Reference-direction survival of MINSGA3 (src/MIGA/MINSGA3.py):          *)
(*   - niching                     the niche-balanced filler               *)
(*   - ReferenceDirectionSurvival._do   the survival orchestrator          *)
(*   - HyperplaneNormalization.update, get_extreme_points_c,               *)
(*     get_nadir_point             the hyperplane normalizer               *)
(*                                                                         *)
(* numpy arrays are functions over 0 .. n-1, Python lists are sequences.   *)
(* The survival and the filler are modelled for two objectives, the        *)
(* normalizer for three; real numbers are exact fractions.                 *)
(* The random generator (np.random.permutation, np.random.shuffle) is a    *)
(* nondeterministic choice over every outcome it can produce.              *)
(***************************************************************************)
EXTENDS Integers, Sequences, FiniteSets, TLC

\* ---------------------------------------------------------------- bounds
MaxFront == 3      \* niching called directly: len(pop) <= MaxFront
MaxConfirmed == 2  \* niching called directly: niche_count counts <= MaxConfirmed individuals
NDirs    == 2      \* len(ref_dirs), the number of niches
MaxDist  == 0      \* niching called directly: dist_to_niche values lie in 0 .. MaxDist

Niches == 0 .. (NDirs - 1)

VARIABLES
    pc,            \* position of the running call
    n_remaining,   \* niching: argument
    niche_count,   \* niching: argument, mutated in place (line 153)
    niche_of,      \* niching: argument niche_of_individuals
    dist,          \* niching: argument dist_to_niche
    mask,          \* niching: line 136
    survivors,     \* niching: line 135
    next_niches,   \* niching: niches of the running round not yet visited by the for loop
    niche_count0,  \* history: niche_count as passed to niching
    round_picks,   \* history: niches picked so far in the running round
    progress,      \* history: len(survivors) when the running round started
    n_survive,     \* _do: argument
    N,             \* _do: the normalized objectives (line 159) of the individuals handed in
    pop,           \* _do: pop after line 104, the individuals in front order
    fronts,        \* _do: fronts after lines 105-110
    rank,          \* _do: the attribute 'rank' of pop (line 113)
    niche_of_individuals,  \* _do: the attribute 'niche' of pop (line 114)
    dist_to_niche, \* _do: the attribute 'dist_to_niche' of pop (line 115)
    opt,           \* self.opt (lines 117-119), the individuals it holds
    until_last_front,      \* _do: lines 123, 126
    result,        \* _do: the population returned (line 133)
    ideal_point,   \* HyperplaneNormalization: line 179
    worst_point,   \* HyperplaneNormalization: line 180
    nadir_point,   \* HyperplaneNormalization: line 181, components are fractions <<num, den>>
    extreme_points,\* HyperplaneNormalization: line 182
    n_updates,     \* number of update calls made on the normalization state
    seen_lo,       \* history: component-wise minimum of every F passed to update
    seen_hi,       \* history: component-wise maximum of every F passed to update
    last_call      \* history: worst_of_front, worst_of_population and the rounding
                   \* outcomes of the last update call

nichingVars == <<n_remaining, niche_count, niche_of, dist, mask, survivors,
                 next_niches, niche_count0, round_picks, progress>>

survivalVars == <<n_survive, N, pop, fronts, rank,
                  niche_of_individuals, dist_to_niche, opt, until_last_front, result>>

normVars == <<ideal_point, worst_point, nadir_point, extreme_points, n_updates,
              seen_lo, seen_hi, last_call>>

vars == <<pc, nichingVars, survivalVars, normVars>>

\* ---------------------------------------------------------------- helpers
Range(f) == {f[x] : x \in DOMAIN f}

SetMin(S) == CHOOSE m \in S : \A x \in S : m <= x

SetMax(S) == CHOOSE m \in S : \A x \in S : m >= x

Minimum(a, b) == IF a <= b THEN a ELSE b

\* numpy arrays: functions over 0 .. n-1
ArrLen(a) == Cardinality(DOMAIN a)

EmptyArr == <<>>

\* np.concatenate((a, b))
ArrConcat(a, b) ==
    CHOOSE c \in
        {[i \in 0 .. (ArrLen(x) + ArrLen(y) - 1) |->
             IF i < ArrLen(x) THEN x[i] ELSE y[i - ArrLen(x)]] : x \in {a}, y \in {b}} : TRUE

\* a[idx], indexing with an array of positions
Take(a, idx) == [j \in DOMAIN idx |-> a[idx[j]]]

\* the elements of a set of integers in increasing order
SortedArr(S) ==
    [i \in 0 .. (Cardinality(S) - 1) |->
        CHOOSE x \in S : Cardinality({y \in S : y < x}) = i]

\* np.concatenate(list of arrays)
RECURSIVE ConcatAll(_)
ConcatAll(list) ==
    IF list = <<>> THEN EmptyArr
    ELSE ArrConcat(list[1], ConcatAll(Tail(list)))

\* a dominates b: no worse in every objective and not equal (lower is better);
\* the normalization of line 159 is increasing in every objective, so F and N
\* give the same dominance relation
Dominates(a, b) == (\A i \in DOMAIN a : a[i] <= b[i]) /\ a # b

\* ---------------------------------------------------------------- normalization
NVals == 2         \* update: objective values are the first NVals of FValues
MaxGenPop == 2     \* update: len(F) <= MaxGenPop
MaxUpdates == 2    \* update calls made on one normalization state

\* n_dim of line 177: the normalizer is modelled for three objectives, an
\* objective vector is <<f1, f2, f3>>. (With two objectives and values below
\* 1e3 the extreme points never give a plane with an intercept <= 1e-6.)
Objs == 1 .. 3

\* objective values are counted in units of 1e-6, so that the thresholds
\* 1e-3 and 1e-6 of the code are the integers AsfClamp, InterceptEps and
\* NadirEps; the values sit on, below and above these thresholds
FValues == <<0, 1000, 1, 500, 2, 999>>

FGrid == {FValues[l] : l \in 1 .. NVals}

\* np.inf of lines 179-180: beyond every objective value
PosInf == SetMax(FGrid) + 1

NegInf == 0 - PosInf

AsfWeight == 1000000      \* line 195: 1e6
AsfClamp == 1000          \* line 200: 1e-3
InterceptEps == 1         \* line 213: 1e-6
NadirEps == 1             \* line 219: 1e-6

Maximum(a, b) == IF a >= b THEN a ELSE b

Abs(x) == IF x < 0 THEN 0 - x ELSE x

RECURSIVE GCD(_, _)
GCD(a, b) == IF b = 0 THEN a ELSE GCD(b, a % b)

\* the fraction n / d, d > 0, in lowest terms
Frac(n, d) == LET g == GCD(Abs(n), d) IN <<n \div g, d \div g>>

\* None of lines 181-182
None == <<>>

\* lines 177-182
NormConstructed ==
    /\ ideal_point = [i \in Objs |-> PosInf]
    /\ worst_point = [i \in Objs |-> NegInf]
    /\ nadir_point = None
    /\ extreme_points = None
    /\ n_updates = 0
    /\ seen_lo = [i \in Objs |-> PosInf]
    /\ seen_hi = [i \in Objs |-> NegInf]
    /\ last_call = None

\* the component-wise minimum of the rows of F
ColMin(F) == [i \in Objs |-> SetMin({F[p][i] : p \in DOMAIN F})]

\* np.max(F, axis=0) of lines 190-191
ColMax(F) == [i \in Objs |-> SetMax({F[p][i] : p \in DOMAIN F})]

IdealAfter_OnlyCurrent(ideal, F) == [i \in Objs |-> SetMin({F[p][i] : p \in DOMAIN F})]

\* line 184: np.min(np.vstack((self.ideal_point, F)), axis=0)
IdealAfter(ideal, F) ==
    [i \in Objs |-> SetMin({ideal[i]} \cup {F[p][i] : p \in DOMAIN F})]

\* line 185: np.max(np.vstack((self.worst_point, F)), axis=0)
WorstAfter(worst, F) ==
    [i \in Objs |-> SetMax({worst[i]} \cup {F[p][i] : p \in DOMAIN F})]

\* nds of line 101: the first front of F, the non-dominated rows in index order
FirstFrontOf(F) ==
    SortedArr({p \in DOMAIN F : \A q \in DOMAIN F : ~Dominates(F[q], F[p])})

\* lines 199-200: the offset from the ideal, offsets below 1e-3 set to 0
ClampedOffset(x, ideal_i) ==
    IF x - ideal_i < AsfClamp THEN 0 ELSE x - ideal_i

\* lines 194-195, 201: the achievement scalarization of point v for axis k
Asf(v, k, ideal) ==
    SetMax({ClampedOffset(v[j], ideal[j]) * (IF j = k THEN 1 ELSE AsfWeight) : j \in Objs})

\* line 202-203: for every axis the first candidate of least scalarization
ExtremeAmong(cand, asf) ==
    [k \in Objs |->
        cand[SetMin({p \in DOMAIN cand : \A q \in DOMAIN cand : asf[p][k] <= asf[q][k]})]]

\* lines 193-204
get_extreme_points_c(Fnds, ideal, extreme) ==
    CHOOSE e \in
        {ExtremeAmong(cand, [p \in DOMAIN cand |-> [k \in Objs |-> Asf(cand[p], k, ideal)]]) :
            cand \in {IF extreme = None THEN Fnds
                      ELSE ArrConcat([i \in 0 .. (Cardinality(Objs) - 1) |-> extreme[i + 1]], Fnds)}} : TRUE

\* line 207
MatrixM(extreme, ideal) == [k \in Objs |-> [j \in Objs |-> extreme[k][j] - ideal[j]]]

Det(M) ==
    M[1][1] * (M[2][2] * M[3][3] - M[2][3] * M[3][2])
      - M[1][2] * (M[2][1] * M[3][3] - M[2][3] * M[3][1])
      + M[1][3] * (M[2][1] * M[3][2] - M[2][2] * M[3][1])

\* line 209: plane = solve(M, b) with b = 1 is, by Cramer's rule,
\* PlaneNum(M)[k] / Det(M): column k of M replaced by b
PlaneNum(M) ==
    [k \in Objs |-> Det([i \in Objs |-> [j \in Objs |-> IF j = k THEN 1 ELSE M[i][j]]])]

\* 1 / 0 and 1 / -0 of line 211, as fractions with denominator 0
PlusInf == <<1, 0>>

MinusInf == <<0 - 1, 0>>

\* line 211: intercepts = 1 / plane. A zero plane component gives +inf or
\* -inf, by the sign the elimination's rounding leaves on the zero
Intercept(M, k, zero_negative) ==
    LET q == PlaneNum(M)[k]
    IN  IF q = 0 THEN (IF zero_negative THEN MinusInf ELSE PlusInf)
        ELSE IF q > 0 THEN Frac(Det(M), q)
        ELSE Frac(0 - Det(M), 0 - q)

\* line 213: intercepts <= 1e-6
InterceptTiny(M, k, zero_negative) ==
    LET v == Intercept(M, k, zero_negative)
    IN  IF v[2] = 0 THEN v = MinusInf
        ELSE v[1] <= InterceptEps * v[2]

UsesHyperplane_NoInterceptCheck(M, fp) == Det(M) # 0 /\ fp.residual_ok

\* lines 206-214, 217: no LinAlgError, from solve on a singular matrix (209)
\* or from line 214
UsesHyperplane(M, fp) ==
    /\ Det(M) # 0
    /\ fp.residual_ok
    /\ \A k \in Objs : ~InterceptTiny(M, k, fp.zero_negative)

\* lines 212, 215-216: ideal + intercepts, clamped to worst_point
HyperplaneNadir(M, ideal, worst, fp) ==
    [k \in Objs |->
        LET v == Intercept(M, k, fp.zero_negative)
        IN  IF v = PlusInf THEN Frac(worst[k], 1)
            ELSE LET n == Frac(ideal[k] * v[2] + v[1], v[2])
                 IN  IF n[1] > worst[k] * n[2] THEN Frac(worst[k], 1) ELSE n]

Degenerate_Never(n, ideal_k) == FALSE

\* line 219: nadir_point - ideal_point <= 1e-6
Degenerate(n, ideal_k) == n[1] - ideal_k * n[2] <= NadirEps * n[2]

\* lines 218-221: the fallback, and the replacement of degenerate components
NadirFrom(M, ideal, worst, worst_of_front, worst_of_population, fp) ==
    LET nadir == IF UsesHyperplane(M, fp)
                 THEN HyperplaneNadir(M, ideal, worst, fp)
                 ELSE [k \in Objs |-> Frac(worst_of_front[k], 1)]
    IN  [k \in Objs |->
            IF Degenerate(nadir[k], ideal[k])
            THEN Frac(worst_of_population[k], 1)
            ELSE nadir[k]]

\* lines 205-221
get_nadir_point(extreme, ideal, worst, worst_of_front, worst_of_population, fp) ==
    CHOOSE n \in
        {NadirFrom(M, ideal, worst, worst_of_front, worst_of_population, fp) :
            M \in {MatrixM(extreme, ideal)}} : TRUE

\* the outcomes floating-point rounding decides: np.allclose of line 213 and
\* the sign of a zero plane component
Roundings == [residual_ok : BOOLEAN, zero_negative : BOOLEAN]

\* lines 183-192, called from line 101 with nds = the first front of F
update(F) ==
    /\ n_updates < MaxUpdates
    /\ \E Fnds \in {Take(F, FirstFrontOf(F))} :
        \E ideal \in {IdealAfter(ideal_point, F)} :
        \E worst \in {WorstAfter(worst_point, F)} :
        \E worst_of_population \in {ColMax(F)} :
        \E worst_of_front \in {ColMax(Fnds)} :
        \E extreme \in {get_extreme_points_c(Fnds, ideal, extreme_points)} :
          /\ ideal_point' = ideal
          /\ worst_point' = worst
          /\ extreme_points' = extreme
          /\ \E fp \in Roundings :
              /\ nadir_point' = get_nadir_point(extreme, ideal, worst,
                                                worst_of_front, worst_of_population, fp)
              /\ last_call' = [worst_of_front |-> worst_of_front,
                               worst_of_population |-> worst_of_population,
                               fp |-> fp]
          /\ seen_hi' = [i \in Objs |-> Maximum(seen_hi[i], worst_of_population[i])]
          /\ seen_lo' = [i \in Objs |-> Minimum(seen_lo[i], ColMin(F)[i])]
    /\ n_updates' = n_updates + 1
    /\ UNCHANGED <<pc, nichingVars, survivalVars>>

\* every population of objective vectors a generation can hand to update
Generations ==
    UNION {[0 .. (n - 1) -> FGrid \X FGrid \X FGrid] : n \in 1 .. MaxGenPop}

InitNorm ==
    /\ pc = "normalize"
    /\ NormConstructed
    /\ n_remaining = 0
    /\ niche_count = [k \in Niches |-> 0]
    /\ niche_count0 = niche_count
    /\ niche_of = EmptyArr
    /\ dist = EmptyArr
    /\ mask = EmptyArr
    /\ survivors = <<>>
    /\ next_niches = {}
    /\ round_picks = <<>>
    /\ progress = 0
    /\ n_survive = 0
    /\ N = EmptyArr
    /\ pop = EmptyArr
    /\ fronts = <<>>
    /\ rank = EmptyArr
    /\ niche_of_individuals = EmptyArr
    /\ dist_to_niche = EmptyArr
    /\ opt = {}
    /\ until_last_front = EmptyArr
    /\ result = EmptyArr

NextNorm == \E F \in Generations : update(F)

SpecNorm == InitNorm /\ [][NextNorm]_vars

\* ---------------------------------------------------------------- niching
\* len(pop)
PopLen == Cardinality(DOMAIN niche_of)

NSelect_OffByOne(n_rem, surv) == n_rem - Len(surv) - 1

\* line 138
NSelect(n_rem, surv) == n_rem - Len(surv)

\* line 139: np.unique(niche_of_individuals[mask])
NextNichesList(nof, m) == {nof[i] : i \in {j \in DOMAIN nof : m[j]}}

MinNiches_NoMinimum(nc, nof, m) == NextNichesList(nof, m)

MinNiches_Maximum(nc, nof, m) ==
    LET lst == NextNichesList(nof, m)
        max_niche_count == SetMax({nc[k] : k \in lst})
    IN  {k \in lst : nc[k] = max_niche_count}

\* lines 140-142: the niches of next_niches_list whose count is the minimum
MinNiches(nc, nof, m) ==
    LET lst == NextNichesList(nof, m)
        min_niche_count == SetMin({nc[k] : k \in lst})
    IN  {k \in lst : nc[k] = min_niche_count}

RoundChoices_NoSlice(cands, n_select) == {cands}

\* line 143: next_niches[np.random.permutation(len(next_niches))[:n_select]],
\* every subset the slice of a random permutation can be
RoundChoices(cands, n_select) ==
    {S \in SUBSET cands : Cardinality(S) = Minimum(n_select, Cardinality(cands))}

\* line 145: np.where(niche_of_individuals == next_niche and mask)
Candidates(nof, m, k) == {i \in DOMAIN nof : nof[i] = k /\ m[i]}

\* lines 146-150: after the shuffle, the closest candidate (any of the closest,
\* the shuffle orders ties) for an empty niche, else the first of the shuffle
PickChoices(nc, nof, d, m, k) ==
    LET c == Candidates(nof, m, k)
    IN  IF nc[k] = 0
        THEN {i \in c : \A j \in c : d[i] <= d[j]}
        ELSE c

\* line 151
MaskAfter(m, i) == [m EXCEPT ![i] = FALSE]

\* line 153
CountAfter(nc, k) == [nc EXCEPT ![k] = nc[k] + 1]

\* lines 137-143: one pass of the while loop begins
NichingRound ==
    /\ pc = "niching"
    /\ next_niches = {}
    /\ Len(survivors) < n_remaining
    /\ NextNichesList(niche_of, mask) # {}    \* line 141 raises on an empty array
    /\ \E S \in RoundChoices(MinNiches(niche_count, niche_of, mask),
                             NSelect(n_remaining, survivors)) :
          next_niches' = S
    /\ round_picks' = <<>>
    /\ progress' = Len(survivors)
    /\ pc' = "niching_for"
    /\ UNCHANGED <<n_remaining, niche_count, niche_of, dist, mask, survivors,
                   niche_count0, survivalVars, normVars>>

\* lines 144-153: one iteration of the for loop; after the last one control is
\* back at the while test of line 137
NichingPick ==
    /\ pc = "niching_for"
    /\ next_niches # {}
    /\ \E k \in next_niches :
         \E i \in PickChoices(niche_count, niche_of, dist, mask, k) :
            /\ mask' = MaskAfter(mask, i)
            /\ survivors' = Append(survivors, i)
            /\ niche_count' = CountAfter(niche_count, k)
            /\ next_niches' = next_niches \ {k}
            /\ round_picks' = Append(round_picks, k)
    /\ pc' = IF next_niches' = {} THEN "niching" ELSE "niching_for"
    /\ UNCHANGED <<n_remaining, niche_of, dist, niche_count0, progress, survivalVars,
                   normVars>>

\* line 154
NichingReturn ==
    /\ pc = "niching"
    /\ ~(Len(survivors) < n_remaining)
    /\ pc' = "niching_done"
    /\ UNCHANGED <<nichingVars, survivalVars, normVars>>

\* lines 164-168: niche_count[k] = number of the given individuals in niche k
calc_niche_count(niches_of) ==
    [k \in Niches |-> Cardinality({i \in DOMAIN niches_of : niches_of[i] = k})]

\* niching called with any arguments that satisfy len(pop) >= n_remaining >= 0,
\* niche_count counting the niches of up to MaxConfirmed confirmed survivors
InitNiching ==
    /\ pc = "niching"
    /\ \E L \in 0 .. MaxFront :
          /\ niche_of \in [0 .. (L - 1) -> Niches]
          /\ dist \in [0 .. (L - 1) -> 0 .. MaxDist]
          /\ mask = [i \in 0 .. (L - 1) |-> TRUE]
          /\ n_remaining \in 0 .. L
    /\ \E c \in 0 .. MaxConfirmed :
          \E confirmed \in [0 .. (c - 1) -> Niches] :
             niche_count = calc_niche_count(confirmed)
    /\ niche_count0 = niche_count
    /\ survivors = <<>>
    /\ next_niches = {}
    /\ round_picks = <<>>
    /\ progress = 0
    /\ n_survive = 0
    /\ N = EmptyArr
    /\ pop = EmptyArr
    /\ fronts = <<>>
    /\ rank = EmptyArr
    /\ niche_of_individuals = EmptyArr
    /\ dist_to_niche = EmptyArr
    /\ opt = {}
    /\ until_last_front = EmptyArr
    /\ result = EmptyArr
    /\ NormConstructed

NextNiching == NichingRound \/ NichingPick \/ NichingReturn

SpecNiching == InitNiching /\ [][NextNiching]_vars

\* ---------------------------------------------------------------- survival
MaxPop == 3        \* _do: len(pop) <= MaxPop and n_survive <= MaxPop

MaxObj == 2        \* _do: normalized objectives lie on the grid (0 .. MaxObj) x (0 .. MaxObj)

\* _do reads the objectives F only through the dominance relation (line 98)
\* and through N = (F - ideal) / (nadir - ideal) of line 159, whose ideal and
\* nadir points come from the update call of line 101. update and
\* get_nadir_point are modelled on their own above (SpecNorm); here N ranges
\* over every array of points of the grid, which covers whatever the
\* normalization state of earlier generations makes of F. Line 159 is
\* increasing in every objective, so N carries the dominance relation of F.

\* the individuals of the population handed to _do
Individuals == DOMAIN N

\* the rank the sorting collaborator gives individual x: the index of its front
RECURSIVE NdsRankOf(_, _)
NdsRankOf(pts, x) ==
    LET doms == {y \in DOMAIN pts : Dominates(pts[y], pts[x])}
    IN  IF doms = {} THEN 0
        ELSE 1 + SetMax({NdsRankOf(pts, y) : y \in doms})

NdsRank(pts) == [x \in DOMAIN pts |-> NdsRankOf(pts, x)]

\* line 98, the sorting collaborator, given the rank of every individual: the
\* fronts in rank order, no further front once n_stop individuals are ranked
RECURSIVE SortFronts(_, _, _, _)
SortFronts(rk, r, n_ranked, n_stop) ==
    LET members == {x \in DOMAIN rk : rk[x] = r}
    IN  IF members = {} \/ (r > 0 /\ n_ranked >= n_stop) THEN <<>>
        ELSE <<SortedArr(members)>>
             \o SortFronts(rk, r + 1, n_ranked + Cardinality(members), n_stop)

NonDominatedSortingDo(rk, n_stop) == SortFronts(rk, 0, 0, n_stop)

\* self.ref_dirs: the NDirs directions of the two-objective simplex lattice,
\* (0, 1) .. (1, 0), scaled by NDirs - 1
ref_dirs == [k \in Niches |-> <<k, (NDirs - 1) - k>>]

NormSq == [k \in Niches |-> ref_dirs[k][1] * ref_dirs[k][1] + ref_dirs[k][2] * ref_dirs[k][2]]

RECURSIVE ProdNormSq(_)
ProdNormSq(S) ==
    IF S = {} THEN 1
    ELSE LET k == SetMin(S) IN NormSq[k] * ProdNormSq(S \ {k})

\* the product of |d|^2 over the directions other than k
DirScale == [k \in Niches |-> ProdNormSq(Niches \ {k})]

\* line 160, calc_perpendicular_distance: the distance of point v to the line
\* through the origin along direction k, |v x d| / |d|. It is kept squared and
\* multiplied by the product of all |d|^2, which keeps every comparison of
\* two distances and makes it an integer
PerpDist(v, k) ==
    LET cross == v[1] * ref_dirs[k][2] - v[2] * ref_dirs[k][1]
    IN  cross * cross * DirScale[k]

Reorder_Forgotten(a, I) == [j \in DOMAIN I |-> a[j]]

\* line 104: pop[I], rank[I], F[I]
Reorder(a, I) == Take(a, I)

\* lines 105-110: the fronts hold the positions in the reordered population
RECURSIVE Renumber(_, _)
Renumber(fs, counter) ==
    IF fs = <<>> THEN <<>>
    ELSE <<[j \in DOMAIN fs[1] |-> counter + j]>>
         \o Renumber(Tail(fs), counter + ArrLen(fs[1]))

\* line 160 on the reordered population: row j holds the distances of pop[j]
\* to every direction
DistMatrix(Nr) == [j \in DOMAIN Nr |-> [k \in Niches |-> PerpDist(Nr[j], k)]]

\* line 161: np.argmin(dist_matrix, axis=1), the first minimum of a row
ArgMinRow(row) ==
    SetMin({k \in DOMAIN row : \A j \in DOMAIN row : row[k] <= row[j]})

\* lines 161-162
NicheOf(dm) == [j \in DOMAIN dm |-> ArgMinRow(dm[j])]

DistToNiche(dm) == [j \in DOMAIN dm |-> dm[j][ArgMinRow(dm[j])]]

\* argmin(axis=0) of column k, the first minimum
ArgMinCol(dm, k) ==
    SetMin({j \in DOMAIN dm : \A i \in DOMAIN dm : dm[j][k] <= dm[i][k]})

Closest_FirstFrontNiches(dm, niches, front0) ==
    {ArgMinCol(dm, k) : k \in {niches[j] : j \in Range(front0)}}

\* line 116: np.unique(dist_matrix[:, np.unique(niche_of_individuals)].argmin(axis=0))
Closest(dm, niches, front0) == {ArgMinCol(dm, k) : k \in Range(niches)}

\* lines 117-119: intersect(fronts[0], closest), or fronts[0] when that is empty
OptPositions(front0, closest) ==
    LET both == {j \in Range(front0) : j \in closest}
    IN  IF both = {} THEN Range(front0) ELSE both

NRemaining_Whole(n_surv, ulf) == n_surv

\* lines 122, 128
NRemaining(n_surv, ulf) == n_surv - ArrLen(ulf)

\* lines 121-127: the positions of the fronts that survive in full
UntilLastFront(fs) ==
    IF Len(fs) = 1 THEN EmptyArr ELSE ConcatAll(SubSeq(fs, 1, Len(fs) - 1))

\* lines 97-119: sort, reorder, associate, set the optimum
Prepare ==
    \E rank0 \in {NdsRank(N)} :
     \E fs0 \in {NonDominatedSortingDo(rank0, n_survive)} :
      \E I \in {ConcatAll(fs0)} :
        /\ pop' = Reorder([x \in Individuals |-> x], I)
        /\ rank' = Reorder(rank0, I)
        /\ fronts' = Renumber(fs0, 0)
        /\ \E dist_matrix \in {DistMatrix(Reorder(N, I))} :
              /\ niche_of_individuals' = NicheOf(dist_matrix)
              /\ dist_to_niche' = DistToNiche(dist_matrix)
              /\ \E closest \in {Closest(dist_matrix, niche_of_individuals', fronts'[1])} :
                    opt' = {pop'[j] : j \in OptPositions(fronts'[1], closest)}

\* lines 97-130 when len(pop) > n_survive: up to the call of niching
SurvivalBegin ==
    /\ pc = "start"
    /\ Prepare
    /\ ArrLen(pop') > n_survive
    /\ LET last_front == fronts'[Len(fronts')]
           ulf == UntilLastFront(fronts')
       IN  /\ until_last_front' = ulf
           /\ niche_count' = IF Len(fronts') = 1
                                THEN [k \in Niches |-> 0]
                                ELSE calc_niche_count(Take(niche_of_individuals', ulf))
           /\ n_remaining' = IF Len(fronts') = 1
                                THEN n_survive
                                ELSE NRemaining(n_survive, ulf)
           /\ niche_of' = Take(niche_of_individuals', last_front)
           /\ dist' = Take(dist_to_niche', last_front)
           /\ mask' = [i \in DOMAIN last_front |-> TRUE]
    /\ niche_count0' = niche_count'
    /\ survivors' = <<>>
    /\ pc' = "niching"
    /\ UNCHANGED <<next_niches, round_picks, progress, n_survive, N, result, normVars>>

\* lines 97-119, 133 when len(pop) <= n_survive: the whole population is returned
SurvivalAll ==
    /\ pc = "start"
    /\ Prepare
    /\ ~(ArrLen(pop') > n_survive)
    /\ result' = pop'
    /\ pc' = "done"
    /\ UNCHANGED <<nichingVars, n_survive, N, until_last_front, normVars>>

\* lines 131-133: survivors = until_last_front ++ last_front[S]; pop[survivors]
SurvivalFinish ==
    /\ pc = "niching_done"
    /\ LET last_front == fronts[Len(fronts)]
           S == [i \in 0 .. (Len(survivors) - 1) |-> survivors[i + 1]]
       IN  result' = Take(pop, ArrConcat(until_last_front, Take(last_front, S)))
    /\ pc' = "done"
    /\ UNCHANGED <<nichingVars, n_survive, N, pop, fronts, rank,
                   niche_of_individuals, dist_to_niche, opt, until_last_front, normVars>>

\* _do called on any population of 1 .. MaxPop individuals
Init ==
    /\ pc = "start"
    /\ \E n \in 1 .. MaxPop :
          N \in [0 .. (n - 1) -> (0 .. MaxObj) \X (0 .. MaxObj)]
    /\ n_survive \in 1 .. MaxPop
    /\ n_remaining = 0
    /\ niche_count = [k \in Niches |-> 0]
    /\ niche_count0 = niche_count
    /\ niche_of = EmptyArr
    /\ dist = EmptyArr
    /\ mask = EmptyArr
    /\ survivors = <<>>
    /\ next_niches = {}
    /\ round_picks = <<>>
    /\ progress = 0
    /\ pop = EmptyArr
    /\ fronts = <<>>
    /\ rank = EmptyArr
    /\ niche_of_individuals = EmptyArr
    /\ dist_to_niche = EmptyArr
    /\ opt = {}
    /\ until_last_front = EmptyArr
    /\ result = EmptyArr
    /\ NormConstructed

Next ==
    \/ SurvivalBegin
    \/ SurvivalAll
    \/ NichingRound
    \/ NichingPick
    \/ NichingReturn
    \/ SurvivalFinish

Spec == Init /\ [][Next]_vars

SpecNichingFair == InitNiching /\ [][NextNiching]_vars /\ WF_vars(NextNiching)

\* ---------------------------------------------------------------- claims on _do
\* N, the size of the population handed to _do
PopSize == ArrLen(N)

\* the length of the longest chain of individuals dominating x
RECURSIVE ChainTo(_)
ChainTo(x) ==
    LET doms == {y \in Individuals : Dominates(N[y], N[x])}
    IN  IF doms = {} THEN 0 ELSE 1 + SetMax({ChainTo(y) : y \in doms})

\* the attribute 'rank' of an individual of the reordered population
RankAttr(x) == rank[CHOOSE j \in DOMAIN pop : pop[j] = x]

\* the rank of the splitting front
LastRank == rank[ArrLen(pop) - 1]

\* C1: the population returned by _do holds exactly min(N, n_survive)
\* individuals.
C1_OutputSize ==
    pc = "done" => ArrLen(result) = Minimum(PopSize, n_survive)

\* truncated by niching, one front surviving in full
C1_Witness ==
    /\ pc = "done"
    /\ PopSize = 3
    /\ n_survive = 2
    /\ Len(fronts) = 2
    /\ ArrLen(result) = 2

\* C2: when more than n_survive individuals are ranked, the population
\* returned is every individual of the fronts before the splitting front, in
\* front order, followed only by distinct individuals of the splitting front;
\* ranks are non-decreasing along it; with a single front nothing is
\* confirmed and every survivor comes from that front.
C2_ConfirmedThenFilled ==
    (pc = "done" /\ ArrLen(pop) > n_survive) =>
      \A depth \in {[x \in Individuals |-> ChainTo(x)]} :
        LET confirmed == {x \in Individuals : depth[x] < LastRank}
            c == Cardinality(confirmed)
        IN  /\ \A j \in DOMAIN result : j < c => result[j] = pop[j]
            /\ {result[j] : j \in {i \in DOMAIN result : i < c}} = confirmed
            /\ \A j \in DOMAIN result : j >= c => depth[result[j]] = LastRank
            /\ \A i, j \in DOMAIN result : i # j => result[i] # result[j]
            /\ \A x \in Range(result) : RankAttr(x) = depth[x]
            /\ \A i, j \in DOMAIN result :
                  i < j => RankAttr(result[i]) <= RankAttr(result[j])
            /\ (Len(fronts) = 1 => c = 0 /\ ArrLen(until_last_front) = 0)
            /\ (Len(fronts) > 1 => c = ArrLen(until_last_front) /\ c >= 1)

\* a front survives in full, the next one is split, and the sort had to
\* reorder the population
C2_Witness ==
    /\ pc = "done"
    /\ ArrLen(pop) > n_survive
    /\ Len(fronts) = 2
    /\ pop[0] # 0
    /\ ArrLen(result) = 2

\* the first front of the reordered population
FirstFront == {j \in DOMAIN pop : rank[j] = 0}

\* the member of the whole reordered population closest to niche k (the first
\* of them in population order)
ClosestTo(k) ==
    CHOOSE j \in DOMAIN pop :
        /\ \A i \in DOMAIN pop : PerpDist(N[pop[j]], k) <= PerpDist(N[pop[i]], k)
        /\ \A i \in DOMAIN pop : i < j => PerpDist(N[pop[i]], k) > PerpDist(N[pop[j]], k)

\* the optimum set that the closest members of the niches ks give
OptFrom(ks) ==
    LET both == {ClosestTo(k) : k \in ks} \cap FirstFront
    IN  {pop[j] : j \in IF both = {} THEN FirstFront ELSE both}

\* C8 as stated: the niches taken are those with a member in the first front.
C8_OptAsClaimed ==
    pc = "done" =>
        /\ opt = OptFrom({niche_of_individuals[j] : j \in FirstFront})
        /\ opt # {}
        /\ opt \subseteq {pop[j] : j \in FirstFront}

\* C8 amended: the niches taken are those with a member anywhere in the
\* front-reordered, pre-truncation population.
C8_OptFromAllNiches ==
    pc = "done" =>
        /\ opt = OptFrom({niche_of_individuals[j] : j \in DOMAIN pop})
        /\ opt # {}
        /\ opt \subseteq {pop[j] : j \in FirstFront}

\* a niche whose only members are dominated puts a first-front individual
\* into the optimum set
C8_Witness ==
    /\ pc = "done"
    /\ \E k \in Range(niche_of_individuals) :
          /\ k \notin {niche_of_individuals[j] : j \in FirstFront}
          /\ ClosestTo(k) \in FirstFront
          /\ pop[ClosestTo(k)] \in opt
          /\ pop[ClosestTo(k)] \notin OptFrom({niche_of_individuals[j] : j \in FirstFront})

\* ---------------------------------------------------------------- claims on niching
\* occupancy of niche k among confirmed plus filled survivors
Occupancy(k) ==
    niche_count0[k]
    + Cardinality({n \in 1 .. Len(survivors) : niche_of[survivors[n]] = k})

\* niches that had at least one candidate in the splitting front
EligibleNiches == Range(niche_of)

\* niches into which the filler has placed a survivor
FilledNiches == {niche_of[survivors[n]] : n \in 1 .. Len(survivors)}

\* niches that still have an unselected candidate
OpenNiches == NextNichesList(niche_of, mask)

\* C3 as stated: after the filler has run inside a survival call (where
\* 1 <= n_remaining < len(pop), lines 120-129), the occupancies of the niches
\* that had a candidate in the splitting front differ by at most 1.
C3_BalancedAsClaimed ==
    (pc = "niching_done" /\ n_remaining >= 1 /\ n_remaining < PopLen) =>
        \A a, b \in EligibleNiches : Occupancy(a) - Occupancy(b) <= 1

\* C3 amended: a niche into which the filler placed a survivor never ends more
\* than 1 above a niche that still has an unselected candidate.
C3_FilledNotAboveOpen ==
    \A a \in FilledNiches : \A b \in OpenNiches : Occupancy(a) - Occupancy(b) <= 1

C3_Witness ==
    /\ pc = "niching_done"
    /\ n_remaining >= 1
    /\ n_remaining < PopLen
    /\ \E a \in FilledNiches : \E b \in OpenNiches :
          a # b /\ niche_count0[a] < niche_count0[b] /\ Occupancy(a) = Occupancy(b) + 1

\* C4: niching returns exactly n_remaining pairwise distinct indices local to
\* the splitting front, and a round never selects more niches than the slots
\* still needed.
C4_NichingResult ==
    /\ (pc = "niching_done" =>
          /\ Len(survivors) = n_remaining
          /\ \A n, m \in 1 .. Len(survivors) : n # m => survivors[n] # survivors[m]
          /\ \A n \in 1 .. Len(survivors) : survivors[n] \in 0 .. (PopLen - 1))
    /\ (pc = "niching_for" =>
          Len(round_picks) + Cardinality(next_niches) <= n_remaining - progress)

C4_Witness ==
    /\ pc = "niching_done"
    /\ PopLen = 3
    /\ Len(survivors) = 2
    /\ Cardinality(EligibleNiches) = 2

\* C9: every pick goes to a niche whose count is, at the moment of the pick,
\* minimal among the niches that still have an unselected candidate, and no
\* niche is picked twice in one round.
C9_PickIsMinimal ==
    [][Len(survivors') = Len(survivors) + 1 =>
         LET i == survivors'[Len(survivors')]
             k == niche_of[i]
         IN  /\ mask[i]
             /\ \A j \in OpenNiches : niche_count[k] <= niche_count[j]
             /\ k \notin Range(round_picks)
             /\ ((\E j \in OpenNiches : Occupancy(j) = 0) => Occupancy(k) = 0)]_vars

\* every niche got its first survivor, and one of them a second one
C9_Witness ==
    /\ pc = "niching_done"
    /\ \A k \in Niches : niche_count0[k] = 0 /\ niche_count[k] >= 1
    /\ \E k \in Niches : niche_count[k] >= 2

\* C10: the niching loop terminates, every pass selecting at least one
\* previously unselected candidate.
C10_Terminates ==
    /\ [][(pc = "niching" /\ pc' = "niching_for") => next_niches' # {}]_vars
    /\ [][(pc = "niching_for" /\ pc' = "niching") => Len(survivors') > progress]_vars
    /\ <>(pc = "niching_done")

\* a call that needed more than one pass
C10_Witness ==
    /\ pc = "niching_done"
    /\ progress >= 1
    /\ Len(survivors) >= 2

\* ------------------------------------------- claims on HyperplaneNormalization
\* (values in units of 1e-6: a difference of 1 is 1e-6)
\* the matrix M of the last get_nadir_point call: update passes the extreme
\* points and the ideal point it has just stored
LastM == MatrixM(extreme_points, ideal_point)

\* worst_of_front with the components within 1e-6 of the ideal replaced by
\* worst_of_population
FallbackNadir ==
    [k \in Objs |->
        IF last_call.worst_of_front[k] - ideal_point[k] <= 1
        THEN <<last_call.worst_of_population[k], 1>>
        ELSE <<last_call.worst_of_front[k], 1>>]

\* C5: across update calls on one normalization state, ideal_point never
\* rises and worst_point never falls in any component, and after each call
\* every objective vector handed to this or an earlier call lies between them.
C5_IdealWorstBracket ==
    /\ [](n_updates >= 1 =>
            \A i \in Objs : /\ ideal_point[i] <= seen_lo[i]
                            /\ seen_hi[i] <= worst_point[i])
    /\ [][\A i \in Objs : /\ ideal_point'[i] <= ideal_point[i]
                          /\ worst_point'[i] >= worst_point[i]]_vars

\* after a second call, both points still hold values of the first call that
\* the second generation does not reach
C5_Witness ==
    /\ n_updates = 2
    /\ \E i \in Objs : worst_point[i] > last_call.worst_of_population[i]
    /\ \E i \in Objs : ideal_point[i] < last_call.worst_of_population[i]
                       /\ ideal_point[i] < worst_point[i]
    /\ ideal_point = seen_lo

C7_FallbackToWorstOfFront ==
    n_updates >= 1 =>
        ((\/ Det(LastM) = 0
          \/ ~last_call.fp.residual_ok
          \/ \E k \in Objs : InterceptTiny(LastM, k, last_call.fp.zero_negative))
            => nadir_point = FallbackNadir)

\* a regular M whose plane passes the residual check but has an intercept
\* <= 1e-6, in a generation whose front and population differ in their worst
C7_Witness ==
    /\ n_updates >= 1
    /\ Det(LastM) # 0
    /\ last_call.fp.residual_ok
    /\ \E k \in Objs : InterceptTiny(LastM, k, last_call.fp.zero_negative)
    /\ last_call.worst_of_front # last_call.worst_of_population
    /\ nadir_point = FallbackNadir

====
